---- MODULE Spec2Model ----
(***************************************************************************)
(* A model of the replica pipeline:                                        *)
(*   main.py                           main, run_github                    *)
(*   src/data_crawling/github_crawler  build_repo_document, _safe_clone    *)
(*   src/preprocess/make_corpus.py     _load_jsonl, _normalize_text,       *)
(*                                     _chunk, build_corpus, run_preprocess*)
(*   tools/clean_corpus.py             _is_english, _is_mostly_numeric,    *)
(*                                     main                                *)
(* A text is a sequence of one-character strings.  Ratios that the code    *)
(* holds as floats (0.85, 0.90, 0.80, 0.60) are held as percentages and    *)
(* compared by cross-multiplication.                                       *)
(***************************************************************************)
EXTENDS Integers, Sequences, FiniteSets, TLC

VARIABLES
    \* ---- _chunk, called on its own (make_corpus.py:41-52)
    ch_pc, ch_text, ch_size, ch_overlap, ch_step, ch_i, ch_chunks, ch_starts,
    \* ---- main.py: the configuration, the stores, the position in main/run_github
    pc,          \* where main.py is: "off" when another program is the one running
    cfg,         \* config/crawler.yaml as read by load_config
    files,       \* the repos.jsonl of each user: a sequence of lines, or Missing
    mongo,       \* the collection: the documents upserted, keyed on (owner_id, name)
    exit_code,   \* the process's exit status, -1 while it runs
    error,       \* the exception that ended the process, "none" if none did
    log,         \* what the run did, in order: prints, fetches, clones, sleeps, writes
    user_i, repo_urls, url_i, docs,
    gh_total,    \* run_github's "total"
    \* ---- run_preprocess / build_corpus
    in_user, in_line,   \* the user and the line build_corpus is at
    out,                \* build_corpus's records so far
    corpus_file,        \* corpus.jsonl: the records saved, or Missing
    run, prev_out,      \* the number of this run over the same input; the run before's records
    \* ---- tools/clean_corpus.py
    cl_pc,              \* where clean_corpus.main is: "off" when another program runs
    pp,                 \* the postprocess section of the configuration
    cl_exists, cl_n,    \* whether in_path exists, and the number of its lines
    cl_pos,             \* the lines read so far
    total, kept, dropped_non_en, dropped_numeric, dropped_empty,
    cl_out,             \* the records written to out_path
    cl_last,            \* the line read last and what became of it
    \* ---- _is_english, called on its own (clean_corpus.py:34-51)
    en_pc, en_text, en_clf, en_result,
    \* ---- _is_mostly_numeric, called on its own (clean_corpus.py:53-60)
    nu_pc, nu_text, nu_result

chunkVars == <<ch_pc, ch_text, ch_size, ch_overlap, ch_step, ch_i, ch_chunks, ch_starts>>

mainVars == <<pc, cfg, files, mongo, exit_code, error, log, user_i, repo_urls, url_i,
              docs, gh_total, in_user, in_line, out, corpus_file, run, prev_out>>

cleanVars == <<cl_pc, pp, cl_exists, cl_n, cl_pos, total, kept, dropped_non_en,
               dropped_numeric, dropped_empty, cl_out, cl_last>>

englishVars == <<en_pc, en_text, en_clf, en_result>>

numericVars == <<nu_pc, nu_text, nu_result>>

vars == <<chunkVars, mainVars, cleanVars, englishVars, numericVars>>

\* What a program leaves alone: the state of the other programs.
notMain    == <<chunkVars, cleanVars, englishVars, numericVars>>
notChunk   == <<mainVars, cleanVars, englishVars, numericVars>>
notClean   == <<chunkVars, mainVars, englishVars, numericVars>>
notEnglish == <<chunkVars, mainVars, cleanVars, numericVars>>
notNumeric == <<chunkVars, mainVars, cleanVars, englishVars>>

\* ------------------------------------------------------------------ bounds
MaxChunkText == 5
MaxChunkSize == 3
MaxOverlap   == 4
MaxRepos     == 2
MaxLines     == 2
MaxCleanLines  == 2
MaxEnglishText == 3
MaxNumericText == 5

\* ----------------------------------------------------------------- helpers
Min2(a, b) == IF a <= b THEN a ELSE b
Max2(a, b) == IF a >= b THEN a ELSE b

\* All sequences over S of length 0..n.
SeqsUpTo(S, n) == UNION {[1..k -> S] : k \in 0..n}

\* s with the elements at the indices satisfying Bad removed.
DropAt(s, Bad(_)) ==
    LET idx == SelectSeq([k \in 1..Len(s) |-> k], LAMBDA k : ~Bad(k))
    IN  [j \in 1..Len(idx) |-> s[idx[j]]]

\* A slice one element short: s[a:b-1].
Slice_Short(s, a, b) == SubSeq(s, a + 1, Min2(b - 1, Len(s)))

\* Python's s[a:b] for 0 <= a, on a sequence indexed from 1.
Slice(s, a, b) == SubSeq(s, a + 1, Min2(b, Len(s)))

\* ----------------------------------------------------------- characters
\* The characters str.strip() removes.
Whitespace == {" ", "\t", "\n", "\r", "\f"}
IsSpace(c) == c \in Whitespace

\* str.strip()
Strip(s) ==
    LET nonws == {k \in 1..Len(s) : ~IsSpace(s[k])}
    IN  IF nonws = {} THEN <<>>
        ELSE LET first == CHOOSE k \in nonws : \A j \in 1..(k - 1) : IsSpace(s[j])
                 last  == CHOOSE k \in nonws : \A j \in (k + 1)..Len(s) : IsSpace(s[j])
             IN  SubSeq(s, first, last)

\* ------------------------------------------------------------------ _chunk
\* A step with the overlap added instead of subtracted.
ChunkStep_Added(size, overlap) == Max2(size + overlap, 1)

\* A step that is not kept positive.
ChunkStep_Unclamped(size, overlap) == size - overlap

\* step = max(size - overlap, 1)
ChunkStep(size, overlap) == Max2(size - overlap, 1)

\* The while loop of _chunk, from start index i with the chunks made so far.
RECURSIVE ChunkLoop(_, _, _, _, _)
ChunkLoop(text, size, step, i, chunks) ==
    IF i < Len(text)
    THEN ChunkLoop(text, size, step, i + step, Append(chunks, Slice(text, i, i + size)))
    ELSE chunks

\* _chunk(text, size, overlap): the list of windows.
_chunk(text, size, overlap) ==
    LET t == Strip(text)
    IN  IF t = <<>> THEN <<>>
        ELSE IF size <= 0 THEN <<t>>
        ELSE ChunkLoop(t, size, ChunkStep(size, overlap), 0, <<>>)

\* ------------------------------------------------------- JSON values
\* A JSON value as json.loads returns it: a str (its characters in val) or not.
JStr(s) == [type |-> "str", val |-> s]
JNum    == [type |-> "num", val |-> <<>>]
JNull   == [type |-> "null", val |-> <<>>]

\* A file: a path that does not exist, or the lines (records) written to it.
Missing      == [exists |-> FALSE, lines |-> <<>>]
Written(ls)  == [exists |-> TRUE, lines |-> ls]

\* ---------------------------------------------------------- _normalize_text
HSpace == {" ", "\t", "\f"}

\* s.replace("\r\n", "\n").replace("\r", "\n")
UnifyNewlines(s) ==
    LET rest == DropAt(s, LAMBDA k : s[k] = "\r" /\ k < Len(s) /\ s[k + 1] = "\n")
    IN  [k \in 1..Len(rest) |-> IF rest[k] = "\r" THEN "\n" ELSE rest[k]]

\* re.sub(r"[ \t\f\v]+\n", "\n", s): a run of horizontal whitespace that ends at a
\* line break is removed.
DropSpaceBeforeNewline(s) ==
    DropAt(s, LAMBDA k : /\ s[k] \in HSpace
                         /\ \E j \in (k + 1)..Len(s) :
                                /\ s[j] = "\n"
                                /\ \A m \in (k + 1)..(j - 1) : s[m] \in HSpace)

\* re.sub(r"\n{3,}", "\n\n", s): of a run of line breaks the first two are kept.
CollapseBlankLines(s) ==
    DropAt(s, LAMBDA k : k >= 3 /\ s[k] = "\n" /\ s[k - 1] = "\n" /\ s[k - 2] = "\n")

\* _normalize_text(s): "" for a value that is not a str.
_normalize_text(raw) ==
    IF raw.type # "str" THEN <<>>
    ELSE Strip(CollapseBlankLines(DropSpaceBeforeNewline(UnifyNewlines(raw.val))))

\* _extract_ipynb(text): the cells' sources of a notebook. No text over the model's
\* characters is a JSON object (json.loads raises, or returns a value without .get),
\* so the except branch is the one taken: _normalize_text(text).
_extract_ipynb(raw) == _normalize_text(raw)

\* ------------------------------------------------------- _printable_ratio
\* ch.isprintable() or ch in "\n\t", for the model's characters: "^A" stands for a
\* control character (U+0001).
IsPrintable(c) == c \notin {"^A", "\r", "\f"}

\* The ratio's threshold in build_corpus, 0.85, as a percentage.
MinPrintablePct == 85

\* _printable_ratio(s) < 0.85, with 0.0 for the empty string.
PrintableRatioTooLow(s) ==
    IF s = <<>> THEN TRUE
    ELSE 100 * Len(SelectSeq(s, IsPrintable)) < MinPrintablePct * Len(s)

\* ------------------------------------------------------------ build_corpus
\* Path(rel_path).suffix.lower(), for the paths of the model.
ExtOf(rel_path) ==
    CASE rel_path = "a.py"     -> ".py"
      [] rel_path = "B.MD"     -> ".md"
      [] rel_path = "nb.ipynb" -> ".ipynb"
      [] rel_path = "c.bin"    -> ".bin"
      [] OTHER                 -> ""

\* _lang_from_ext(ext): the table, and ext.lower().lstrip(".") for the rest.
_lang_from_ext(ext) ==
    CASE ext = ".py"    -> "python"
      [] ext = ".md"    -> "markdown"
      [] ext = ".ipynb" -> "notebook"
      [] ext = ".bin"   -> "bin"
      [] OTHER          -> ""

\* hashlib.sha1(base).hexdigest(): a digest is taken to stand for its input alone.
Sha1Hex(base) == "sha1:" \o base

\* An id made from the window's text (its first character) instead of its length.
RecordId_OfText(owner, repo, rel_path, idx, piece) ==
    Sha1Hex(owner \o "|" \o repo \o "|" \o rel_path \o "|" \o ToString(idx)
                \o "|" \o piece[1])

\* Lines 124-125: the id of a chunk record.
RecordId(owner, repo, rel_path, idx, piece) ==
    Sha1Hex(owner \o "|" \o repo \o "|" \o rel_path \o "|" \o ToString(idx)
                \o "|" \o ToString(Len(piece)))

\* Metadata with a one-based chunk_index.
ChunkMeta_OneBased(owner, repo, rel_path, link, idx, n) ==
    [source |-> "github", owner |-> owner, repo |-> repo, path |-> rel_path,
     ext |-> ExtOf(rel_path), lang |-> _lang_from_ext(ExtOf(rel_path)),
     repo_url |-> link, chunk_index |-> idx + 1, n_chunks |-> n]

\* Lines 113-123: the metadata of the chunk at position idx of n.
ChunkMeta(owner, repo, rel_path, link, idx, n) ==
    [source |-> "github", owner |-> owner, repo |-> repo, path |-> rel_path,
     ext |-> ExtOf(rel_path), lang |-> _lang_from_ext(ExtOf(rel_path)),
     repo_url |-> link, chunk_index |-> idx, n_chunks |-> n]

\* Lines 91-92: {e.lower() for e in exts}.
LowerExt(e) ==
    CASE e = ".PY" -> ".py"
      [] e = ".MD" -> ".md"
      [] OTHER     -> e
LowerExts(exts) == {LowerExt(e) : e \in exts}

\* An extension gate where exclude_exts is consulted only when include_exts is empty.
ExtensionRejected_IncludeWins(ext, include_exts, exclude_exts) ==
    IF include_exts # {} THEN ext \notin include_exts ELSE ext \in exclude_exts

\* Lines 101-104: the extension gate, on the lower-cased sets.
ExtensionRejected(ext, include_exts, exclude_exts) ==
    \/ include_exts # {} /\ ext \notin include_exts
    \/ ext \in exclude_exts

\* Lines 106-107: the text of a file, and the quality gate.
FileText(rel_path, raw) ==
    IF ExtOf(rel_path) = ".ipynb" THEN _extract_ipynb(raw) ELSE _normalize_text(raw)

QualityRejected(text, max_file_chars) ==
    \/ text = <<>>
    \/ Len(text) > max_file_chars
    \/ PrintableRatioTooLow(text)

\* Lines 100-126: the records one file of a repository document contributes.
FileRecords(owner, repo, link, rel_path, raw, c) ==
    LET text == FileText(rel_path, raw)
    IN  IF ExtensionRejected(ExtOf(rel_path), LowerExts(c.include_exts),
                             LowerExts(c.exclude_exts))
        THEN <<>>
        ELSE IF QualityRejected(text, c.max_file_chars) THEN <<>>
        ELSE LET pieces == _chunk(text, c.chunk_size, c.chunk_overlap)
             IN  [k \in 1..Len(pieces) |->
                    [id       |-> RecordId(owner, repo, rel_path, k - 1, pieces[k]),
                     text     |-> pieces[k],
                     metadata |-> ChunkMeta(owner, repo, rel_path, link, k - 1,
                                            Len(pieces))]]

\* Lines 96-126: the records of one repository document, file after file in the
\* order of its content mapping.
RECURSIVE ContentRecords(_, _, _, _, _)
ContentRecords(owner, repo, link, content, c) ==
    IF content = <<>> THEN <<>>
    ELSE FileRecords(owner, repo, link, Head(content).path, Head(content).raw, c)
            \o ContentRecords(owner, repo, link, Tail(content), c)

DocRecords(owner, repo_doc, c) ==
    ContentRecords(owner, repo_doc.name, repo_doc.link, repo_doc.content, c)

\* ==================================================================== main.py
Users == {"u", "v"}
BASE  == "https://github.com"

crawlVars  == <<user_i, repo_urls, url_i, docs, gh_total>>
corpusVars == <<in_user, in_line, out, corpus_file>>
runVars    == <<run, prev_out>>

\* ---- lines of a JSON-lines file, as _load_jsonl meets them
BlankLine     == [kind |-> "blank",     name |-> "", link |-> "", content |-> <<>>]
MalformedLine == [kind |-> "malformed", name |-> "", link |-> "", content |-> <<>>]
\* Valid JSON that is not an object, such as [] or 5.
NonObjectLine == [kind |-> "nonobject", name |-> "", link |-> "", content |-> <<>>]
\* A repository document: content is the mapping's items in order, <<>> when the
\* document has no "content" key (repo_doc.get("content", {}) or {}).
DocLine(name, link, content) ==
    [kind |-> "doc", name |-> name, link |-> link, content |-> content]
File(rel_path, raw) == [path |-> rel_path, raw |-> raw]

\* ---- what the network and git answer
\* extract_repo_tree_via_git's result for a clone that succeeds: the files that pass
\* the directory, extension and size filters.
Trees == { <<>>, <<File("a.py", JStr(<<"x", "y", "z">>))>> }
RepoNames == {"r1", "r2"}
\* list_user_repo_urls: distinct names in page order, at most max_repos of them.
Listings == {l \in SeqsUpTo(RepoNames, MaxRepos) :
                \A a, b \in 1..Len(l) : a # b => l[a] # l[b]}

Link(user, repo) == BASE \o "/" \o user \o "/" \o repo

\* The process ends on an uncaught exception: a traceback, exit status 1.
Raise(exc) ==
    /\ pc' = "crashed"
    /\ exit_code' = 1
    /\ error' = exc

\* sys.exit(code), or main returning (code 0).
Exit(code) ==
    /\ pc' = "exit"
    /\ exit_code' = code
    /\ error' = error

\* main.py:25: "if not users".
NoUsers_Never(users) == FALSE

NoUsers(users) == users = <<>>

\* github_crawler.py:171-178: the sleep stands inside "if mode == 'repo'".
DelayApplied_AnyMode(mode) == TRUE

DelayApplied(mode) == mode = "repo"

\* main.py:78-89: main reads the configuration and starts the crawl if enabled.
Main ==
    /\ UNCHANGED notMain
    /\ pc = "main"
    /\ pc' = IF cfg.crawl_github THEN "run_github" ELSE "after_crawl"
    /\ UNCHANGED <<cfg, files, mongo, exit_code, error, log, crawlVars, corpusVars, runVars>>

\* main.py:22-48 (and 87-89 for the return of 1): the users check, the indexes.
RunGithub ==
    /\ UNCHANGED notMain
    /\ pc = "run_github"
    /\ IF NoUsers(cfg.users)
       THEN /\ log' = Append(log, <<"print", "No users configured">>)
            /\ Exit(1)
            /\ UNCHANGED crawlVars
       ELSE /\ log' = IF cfg.sink = "mongo" THEN Append(log, <<"create_indexes">>) ELSE log
            /\ gh_total' = 0
            /\ user_i' = 1
            /\ pc' = "for_user"
            /\ UNCHANGED <<exit_code, error, repo_urls, url_i, docs>>
    /\ UNCHANGED <<cfg, files, mongo, corpusVars, runVars>>

\* main.py:49-52: the next user's repositories are listed.
ForUser ==
    /\ UNCHANGED notMain
    /\ pc = "for_user"
    /\ user_i <= Len(cfg.users)
    /\ \E page \in {"ok", "http_error"}, listing \in Listings :
         IF page = "http_error"
         THEN /\ Raise("HTTPError")
              /\ log' = Append(log, <<"list", cfg.users[user_i]>>)
              /\ UNCHANGED crawlVars
         ELSE /\ repo_urls' = listing
              /\ url_i' = 1
              /\ docs' = <<>>
              /\ log' = Append(log, <<"list", cfg.users[user_i]>>)
              /\ pc' = "for_url"
              /\ UNCHANGED <<exit_code, error, user_i, gh_total>>
    /\ UNCHANGED <<cfg, files, mongo, corpusVars, runVars>>

\* main.py:53-60 with github_crawler.py:152-179: one repository's document.
BuildRepoDocument ==
    /\ UNCHANGED notMain
    /\ pc = "for_url"
    /\ url_i <= Len(repo_urls)
    /\ \E page \in {"ok", "http_error"}, clone \in {"ok", "failed"}, tree \in Trees :
         LET user  == cfg.users[user_i]
             repo  == repo_urls[url_i]
             begun == Append(log, <<"process", user, repo>>)
         IN  IF page = "http_error"
             THEN /\ Raise("HTTPError")
                  /\ log' = begun
                  /\ UNCHANGED crawlVars
             ELSE IF cfg.mode = "repo" /\ clone = "failed"
             THEN /\ Raise("RuntimeError: git clone failed")
                  /\ log' = Append(begun, <<"clone_failed", user, repo>>)
                  /\ UNCHANGED crawlVars
             ELSE /\ docs' = Append(docs,
                        DocLine(repo, Link(user, repo),
                                IF cfg.mode = "repo" THEN tree ELSE <<>>))
                  /\ log' = (IF cfg.mode = "repo"
                             THEN Append(begun, <<"clone", user, repo>>) ELSE begun)
                            \o (IF DelayApplied(cfg.mode) THEN << <<"sleep">> >> ELSE <<>>)
                  /\ url_i' = url_i + 1
                  /\ UNCHANGED <<pc, exit_code, error, user_i, repo_urls, gh_total>>
    /\ UNCHANGED <<cfg, files, mongo, corpusVars, runVars>>

\* RepositoryDocument.save for each document: replace_one(..., upsert=True) on
\* (owner_id, name).
RECURSIVE Upsert(_, _, _)
Upsert(coll, owner, ds) ==
    IF ds = <<>> THEN coll
    ELSE Upsert({d \in coll : ~(d.owner_id = owner /\ d.name = Head(ds).name)}
                    \cup {[owner_id |-> owner, name |-> Head(ds).name, doc |-> Head(ds)]},
                owner, Tail(ds))

\* main.py:62-73: the user's documents are persisted.
SaveUser ==
    /\ UNCHANGED notMain
    /\ pc = "for_url"
    /\ url_i > Len(repo_urls)
    /\ LET user == cfg.users[user_i]
       IN  IF cfg.sink = "jsonl"
           THEN /\ files' = [files EXCEPT ![user] = Written(docs)]
                /\ log' = Append(log, <<"save_jsonl", user>>)
                /\ gh_total' = gh_total + Len(docs)
                /\ user_i' = user_i + 1
                /\ pc' = "for_user"
                /\ UNCHANGED <<mongo, exit_code, error>>
           ELSE IF cfg.sink = "mongo"
           THEN /\ mongo' = Upsert(mongo, user, docs)
                /\ log' = Append(log, <<"upsert", user>>)
                /\ gh_total' = gh_total + Len(docs)
                /\ user_i' = user_i + 1
                /\ pc' = "for_user"
                /\ UNCHANGED <<files, exit_code, error>>
           ELSE /\ log' = Append(log, <<"print", "Unknown storage.sink">>)
                /\ Exit(2)
                /\ UNCHANGED <<files, mongo, gh_total, user_i>>
    /\ UNCHANGED <<cfg, repo_urls, url_i, docs, corpusVars, runVars>>

\* main.py:75-76: every user is done, run_github returns 0.
RunGithubDone ==
    /\ UNCHANGED notMain
    /\ pc = "for_user"
    /\ user_i > Len(cfg.users)
    /\ pc' = "after_crawl"
    /\ UNCHANGED <<cfg, files, mongo, exit_code, error, log, crawlVars, corpusVars, runVars>>

\* main.py:92-94 with make_corpus.py:135-149: run_preprocess, if enabled.
RunPreprocess ==
    /\ UNCHANGED notMain
    /\ pc = "after_crawl"
    /\ IF ~cfg.preprocess
       THEN /\ Exit(0)
            /\ UNCHANGED <<log, corpusVars>>
       ELSE IF cfg.users = <<>>
       THEN /\ log' = Append(log, <<"print", "Preprocess: wrote 0 chunks">>)
            /\ Exit(0)
            /\ UNCHANGED corpusVars
       ELSE /\ pc' = "build_corpus"
            /\ in_user' = 1
            /\ in_line' = 1
            /\ out' = <<>>
            /\ UNCHANGED <<exit_code, error, log, corpus_file>>
    /\ UNCHANGED <<cfg, files, mongo, crawlVars, runVars>>

\* The line build_corpus is about to read, when there is one.
AtLine ==
    /\ pc = "build_corpus"
    /\ in_user <= Len(cfg.users)
    /\ files[cfg.users[in_user]].exists
    /\ in_line <= Len(files[cfg.users[in_user]].lines)
CurrentLine == files[cfg.users[in_user]].lines[in_line]

\* make_corpus.py:17-24 and 95-126: one line of the user's file: skipped when blank
\* or not JSON, otherwise yielded to build_corpus, which appends its records.
CorpusLine ==
    /\ UNCHANGED notMain
    /\ AtLine
    /\ IF CurrentLine.kind \in {"blank", "malformed"}
       THEN /\ in_line' = in_line + 1
            /\ UNCHANGED <<pc, exit_code, error, out>>
       ELSE IF CurrentLine.kind = "nonobject"
       THEN /\ Raise("AttributeError")
            /\ UNCHANGED <<in_line, out>>
       ELSE /\ out' = out \o DocRecords(cfg.users[in_user], CurrentLine, cfg)
            /\ in_line' = in_line + 1
            /\ UNCHANGED <<pc, exit_code, error>>
    /\ UNCHANGED <<cfg, files, mongo, log, crawlVars, in_user, corpus_file, runVars>>

\* make_corpus.py:14-15 and 63-66: the user's file is missing or read to its end.
CorpusNextUser ==
    /\ UNCHANGED notMain
    /\ pc = "build_corpus"
    /\ in_user <= Len(cfg.users)
    /\ ~AtLine
    /\ in_user' = in_user + 1
    /\ in_line' = 1
    /\ UNCHANGED <<pc, cfg, files, mongo, exit_code, error, log, crawlVars, out,
                   corpus_file, runVars>>

\* make_corpus.py:161-163 and main.py:94: the records are saved, main ends.
SaveCorpus ==
    /\ UNCHANGED notMain
    /\ pc = "build_corpus"
    /\ in_user > Len(cfg.users)
    /\ corpus_file' = Written(out)
    /\ log' = Append(log, <<"save_corpus", Len(out)>>)
    /\ Exit(0)
    /\ UNCHANGED <<cfg, files, mongo, crawlVars, in_user, in_line, out, runVars>>

\* main.py is run again on the same configuration and the same files.
Rerun ==
    /\ UNCHANGED notMain
    /\ pc = "exit"
    /\ exit_code = 0
    /\ run = 1
    /\ run' = run + 1
    /\ prev_out' = out
    /\ pc' = "main"
    /\ exit_code' = -1
    /\ log' = <<>>
    /\ UNCHANGED <<cfg, files, mongo, error, crawlVars, corpusVars>>

\* ====================================================== tools/clean_corpus.py
\* The characters of the texts cleaned: an ASCII letter, a letter above U+007F, a
\* digit, a blank.
AsciiChars  == {"a", "1", " ", "."}
LetterChars == {"a", "é"}
DigitChars  == {"1"}

\* _ascii_ratio(s) >= pct / 100, with a ratio of 1.0 for the empty string.
AsciiRatioAtLeast_Strict(s, pct) ==
    IF s = <<>> THEN 100 > pct
    ELSE 100 * Len(SelectSeq(s, LAMBDA c : c \in AsciiChars)) > pct * Len(s)

AsciiRatioAtLeast(s, pct) ==
    IF s = <<>> THEN 100 >= pct
    ELSE 100 * Len(SelectSeq(s, LAMBDA c : c \in AsciiChars)) >= pct * Len(s)

\* _letters_and_digits_counts(s)
Letters(s) == Len(SelectSeq(s, LAMBDA c : c \in LetterChars))
Digits(s)  == Len(SelectSeq(s, LAMBDA c : c \in DigitChars))

\* _is_mostly_numeric with an exclusive bound.
_is_mostly_numeric_Strict(text, max_digit_ratio) ==
    LET denom == Letters(text) + Digits(text)
    IN  IF denom = 0 THEN TRUE
        ELSE 100 * Digits(text) > max_digit_ratio * denom

\* _is_mostly_numeric(text, max_digit_ratio): digits / denom >= max_digit_ratio, the
\* ratio in percent. The float quotient of two small integers and the float literal of
\* the same fraction are the same double, so the comparison is the exact one.
_is_mostly_numeric(text, max_digit_ratio) ==
    LET denom == Letters(text) + Digits(text)
    IN  IF denom = 0 THEN TRUE
        ELSE 100 * Digits(text) >= max_digit_ratio * denom

\* What "from langdetect import ..." and detect_langs(t) do: the import fails, the
\* detector raises, or it answers with languages and their probabilities (percent).
LangProb(lang, prob) == [lang |-> lang, prob |-> prob]
Unavailable == [state |-> "unavailable", langs |-> <<>>]
Raises      == [state |-> "raises", langs |-> <<>>]
Answers(l)  == [state |-> "answers", langs |-> l]
ClassifierOutcomes ==
    { Unavailable, Raises, Answers(<<>>),
      Answers(<<LangProb("en", 99)>>), Answers(<<LangProb("en", 80)>>),
      Answers(<<LangProb("en", 79)>>), Answers(<<LangProb("fr", 99)>>),
      Answers(<<LangProb("fr", 60), LangProb("en", 40)>>) }

\* _is_english(text, min_chars, min_prob, ascii_min_ratio), with the classifier's
\* outcome clf for this call.
_is_english(text, min_chars, min_prob, ascii_min_ratio, clf) ==
    LET t == Strip(text)
    IN  IF t = <<>> THEN FALSE
        ELSE IF Len(t) >= Max2(min_chars, 1) /\ clf.state = "answers"
        THEN \E k \in 1..Len(clf.langs) :
                clf.langs[k].lang = "en" /\ clf.langs[k].prob >= min_prob
        ELSE AsciiRatioAtLeast(t, ascii_min_ratio)

\* ---- lines of the corpus file, as main meets them
CleanBlank     == [kind |-> "blank",     text |-> JNull]
CleanMalformed == [kind |-> "malformed", text |-> JNull]
CleanNonObject == [kind |-> "nonobject", text |-> JNull]
\* A JSON object whose "text" is v: a str, a number, or null (or no such key).
CleanRecord(v) == [kind |-> "record", text |-> v]

\* A malformed line taken for a blank one.
CleanVerdict_MalformedAsBlank(line, clf, p) ==
    IF line.kind \in {"blank", "malformed"} THEN "blank"
    ELSE IF line.kind = "nonobject" \/ line.text.type = "num" THEN "crash"
    ELSE LET text == Strip(line.text.val)
         IN  IF text = <<>> THEN "empty"
             ELSE IF _is_mostly_numeric(text, p.max_digit_ratio) THEN "numeric"
             ELSE IF ~_is_english(text, p.lang_min_chars, p.lang_min_prob,
                                  p.ascii_min_ratio, clf) THEN "non_en"
             ELSE "kept"

\* clean_corpus.py:87-113: what becomes of one line. "crash": obj.get or .strip() on a
\* value that has none raises AttributeError.
CleanVerdict(line, clf, p) ==
    IF line.kind = "blank" THEN "blank"
    ELSE IF line.kind = "malformed" THEN "invalid"
    ELSE IF line.kind = "nonobject" \/ line.text.type = "num" THEN "crash"
    ELSE LET text == Strip(line.text.val)
         IN  IF text = <<>> THEN "empty"
             ELSE IF _is_mostly_numeric(text, p.max_digit_ratio) THEN "numeric"
             ELSE IF ~_is_english(text, p.lang_min_chars, p.lang_min_prob,
                                  p.ascii_min_ratio, clf) THEN "non_en"
             ELSE "kept"

CleanTexts ==
    { <<>>, <<" ">>, <<".">>, <<"a">>, <<"1">>, <<"a", "1">>, <<"é">>, <<"a", "é">>,
      <<" ", "a", "a">> }

CleanLines ==
    {CleanBlank, CleanMalformed, CleanNonObject}
        \cup {CleanRecord(v) : v \in {JNull, JNum} \cup {JStr(t) : t \in CleanTexts}}

PostprocessConfigs ==
    [lang_min_chars  : {0, 2, 200},
     lang_min_prob   : {80},
     ascii_min_ratio : {50, 90},
     max_digit_ratio : {50, 60}]

NoLine == [line |-> CleanBlank, verdict |-> "none"]

\* clean_corpus.py:65-76: the configuration is read; without the input file main
\* prints and returns.
CleanStart ==
    /\ UNCHANGED notClean
    /\ cl_pc = "main"
    /\ cl_pc' = IF cl_exists THEN "loop" ELSE "done"
    /\ UNCHANGED <<pp, cl_exists, cl_n, cl_pos, total, kept, dropped_non_en,
                   dropped_numeric, dropped_empty, cl_out, cl_last>>

\* clean_corpus.py:86-114: one line of the input.
CleanLine ==
    /\ UNCHANGED notClean
    /\ cl_pc = "loop"
    /\ cl_pos < cl_n
    /\ \E line \in CleanLines, clf \in ClassifierOutcomes :
         LET v == CleanVerdict(line, clf, pp)
         IN  /\ cl_last' = [line |-> line, verdict |-> v]
             /\ total' = total + 1
             /\ cl_pos' = cl_pos + 1
             /\ cl_pc' = IF v = "crash" THEN "crashed" ELSE "loop"
             /\ dropped_empty' = dropped_empty + (IF v \in {"invalid", "empty"} THEN 1 ELSE 0)
             /\ dropped_numeric' = dropped_numeric + (IF v = "numeric" THEN 1 ELSE 0)
             /\ dropped_non_en' = dropped_non_en + (IF v = "non_en" THEN 1 ELSE 0)
             /\ kept' = kept + (IF v = "kept" THEN 1 ELSE 0)
             /\ cl_out' = IF v = "kept" THEN Append(cl_out, line) ELSE cl_out
    /\ UNCHANGED <<pp, cl_exists, cl_n>>

\* clean_corpus.py:116-123: the input is read to its end, the summary is printed.
CleanSummary ==
    /\ UNCHANGED notClean
    /\ cl_pc = "loop"
    /\ cl_pos = cl_n
    /\ cl_pc' = "done"
    /\ UNCHANGED <<pp, cl_exists, cl_n, cl_pos, total, kept, dropped_non_en,
                   dropped_numeric, dropped_empty, cl_out, cl_last>>

\* ---- _is_english called on its own
EnglishChars == {"a", "é", "1", " "}

IsEnglishCall ==
    /\ UNCHANGED notEnglish
    /\ en_pc = "call"
    /\ en_result' = _is_english(en_text, pp.lang_min_chars, pp.lang_min_prob,
                                pp.ascii_min_ratio, en_clf)
    /\ en_pc' = "return"
    /\ UNCHANGED <<en_text, en_clf>>

\* ---- _is_mostly_numeric called on its own
NumericChars == {"a", "é", "1", "."}

IsMostlyNumericCall ==
    /\ UNCHANGED notNumeric
    /\ nu_pc = "call"
    /\ nu_result' = _is_mostly_numeric(nu_text, pp.max_digit_ratio)
    /\ nu_pc' = "return"
    /\ UNCHANGED nu_text

\* ---- a program that is not the one running
IdleNumeric ==
    /\ nu_pc = "off" /\ nu_text = <<>> /\ nu_result = FALSE

IdleChunk ==
    /\ ch_pc = "off"
    /\ ch_text = <<>> /\ ch_size = 0 /\ ch_overlap = 0
    /\ ch_step = 0 /\ ch_i = 0 /\ ch_chunks = <<>> /\ ch_starts = <<>>

CleanCounters(n) ==
    /\ cl_pos = n /\ total = n /\ kept = n /\ dropped_non_en = n
    /\ dropped_numeric = n /\ dropped_empty = n

IdleClean ==
    /\ cl_pc = "off"
    /\ cl_exists = FALSE /\ cl_n = 0
    /\ CleanCounters(0)
    /\ cl_out = <<>> /\ cl_last = NoLine

IdleEnglish ==
    /\ en_pc = "off" /\ en_text = <<>> /\ en_clf = Unavailable /\ en_result = FALSE

DefaultPostprocess ==
    [lang_min_chars |-> 200, lang_min_prob |-> 80, ascii_min_ratio |-> 90,
     max_digit_ratio |-> 60]

\* ---- the configurations and files main.py is started on
NoExts == {}

\* preprocess.* as the crawl runs use it: chunks of 2 characters overlapping by 1.
CrawlConfigs ==
    [users          : {<<>>, <<"u">>, <<"u", "v">>},
     crawl_github   : BOOLEAN,
     preprocess     : BOOLEAN,
     mode           : {"repo", "readme"},
     sink           : {"jsonl", "mongo", "csv"},
     include_exts   : {NoExts},
     exclude_exts   : {NoExts},
     max_file_chars : {120000},
     chunk_size     : {2},
     chunk_overlap  : {1}]

IdleMain ==
    /\ pc = "off"
    /\ cfg = CHOOSE c \in CrawlConfigs : TRUE
    /\ files = [u \in Users |-> Missing]
    /\ mongo = {}
    /\ exit_code = -1
    /\ error = "none"
    /\ log = <<>>
    /\ user_i = 0 /\ repo_urls = <<>> /\ url_i = 0 /\ docs = <<>> /\ gh_total = 0
    /\ in_user = 0 /\ in_line = 0 /\ out = <<>> /\ corpus_file = Missing
    /\ run = 1 /\ prev_out = <<>>

\* main.py started with the crawl's switches, users, mode and sink of every kind, no
\* repos.jsonl written yet.
InitMain ==
    /\ pc = "main"
    /\ cfg \in CrawlConfigs
    /\ files = [u \in Users |-> Missing]
    /\ mongo = {}
    /\ exit_code = -1
    /\ error = "none"
    /\ log = <<>>
    /\ user_i = 0 /\ repo_urls = <<>> /\ url_i = 0 /\ docs = <<>> /\ gh_total = 0
    /\ in_user = 0 /\ in_line = 0 /\ out = <<>> /\ corpus_file = Missing
    /\ run = 1 /\ prev_out = <<>>
    /\ IdleChunk /\ IdleClean /\ IdleEnglish /\ IdleNumeric /\ pp = DefaultPostprocess

NextMain ==
    \/ Main \/ RunGithub \/ ForUser \/ BuildRepoDocument \/ SaveUser \/ RunGithubDone
    \/ RunPreprocess \/ CorpusLine \/ CorpusNextUser \/ SaveCorpus

SpecMain == InitMain /\ [][NextMain]_vars

\* ---- what the log of a run says
Logged(tag)        == {k \in 1..Len(log) : log[k][1] = tag}
LoggedFor(tag, u)  == {k \in 1..Len(log) : log[k][1] = tag /\ log[k][2] = u}
Ended              == pc \in {"exit", "crashed"}
Persisted(u)       == LoggedFor("save_jsonl", u) # {} \/ LoggedFor("upsert", u) # {}

\* C1: a clone failure never aborts the run: when a clone failed and nothing else went
\* wrong (no HTTP error, a known sink), the run ends without an exception and every
\* configured user's repositories have been persisted.
C1_CloneFailureNeverAborts ==
    (/\ Logged("clone_failed") # {}
     /\ Ended
     /\ error # "HTTPError"
     /\ cfg.sink \in {"jsonl", "mongo"})
        => (/\ error = "none"
            /\ \A k \in 1..Len(cfg.users) : Persisted(cfg.users[k]))

NoProcessing ==
    /\ \A k \in 1..Len(log) : log[k][1] = "print"
    /\ pc \notin {"for_user", "for_url", "build_corpus"}
    /\ \A u \in Users : ~files[u].exists
    /\ mongo = {}
    /\ ~corpus_file.exists
ReportedNoUsers == \E k \in Logged("print") : log[k][2] = "No users configured"

\* C7 as stated: with no users configured the run does no processing, reports it and
\* exits with a non-zero status, for every setting of crawl_github and preprocess.
C7_NoUsersExitsNonZeroAnySwitch ==
    cfg.users = <<>> =>
        /\ NoProcessing
        /\ Ended => (exit_code # 0 /\ ReportedNoUsers)

\* C7 amended: with no users configured the run does no processing for any setting of
\* the switches; it reports the absence and exits with status 1 when crawl_github is
\* enabled, and ends with status 0 and without that report when crawl_github is
\* disabled (run_preprocess returns 0 chunks).
C7_NoUsersExitsNonZeroWhenCrawling ==
    cfg.users = <<>> =>
        /\ NoProcessing
        /\ pc # "crashed"
        /\ pc = "exit" =>
              /\ exit_code = (IF cfg.crawl_github THEN 1 ELSE 0)
              /\ ReportedNoUsers <=> cfg.crawl_github

\* C7 witness: no users, crawl enabled, and the run has exited with status 1.
C7_Witness ==
    /\ cfg.users = <<>>
    /\ cfg.crawl_github
    /\ pc = "exit"
    /\ exit_code = 1

\* ============================================= main.py on files already there
\* The crawl disabled: run_preprocess reads whatever repos.jsonl holds.
TextXYZ   == <<"x", "y", "z">>
TextXYW   == <<"x", "y", "w">>
\* " x \n\n\n\ny\r\n": normalises to "x\n\ny".
TextRagged == <<" ", "x", " ", "\n", "\n", "\n", "\n", "y", "\r", "\n">>
TextBlank  == <<" ", "\n">>
TextBinary == <<"^A", "x">>

RepoLink == Link("u", "r")

CorpusDocs ==
    { DocLine("r", RepoLink, <<File("a.py", JStr(TextXYZ))>>),
      DocLine("r", RepoLink, <<File("a.py", JStr(TextXYW))>>),
      DocLine("r", RepoLink, <<File("a.py", JStr(TextRagged)), File("B.MD", JStr(TextXYZ))>>),
      DocLine("q", RepoLink, <<File("c.bin", JStr(TextBinary)), File("nb.ipynb", JNum),
                               File("a.py", JStr(TextBlank))>>) }

CorpusLines == {BlankLine, MalformedLine, NonObjectLine} \cup CorpusDocs

CorpusConfigs ==
    [users          : {<<"u", "v">>},
     crawl_github   : {FALSE},
     preprocess     : {TRUE},
     mode           : {"repo"},
     sink           : {"jsonl"},
     include_exts   : {NoExts, {".py"}, {".PY"}},
     exclude_exts   : {NoExts, {".py"}},
     max_file_chars : {3, 120000},
     chunk_size     : {0, 2},
     chunk_overlap  : {-1, 1, 2}]

\* The end-to-end scenario: one document, content {"a.py": "x" * 3000}, chunk size
\* 1000, overlap 100.
EndToEndConfig ==
    [users |-> <<"u">>, crawl_github |-> FALSE, preprocess |-> TRUE, mode |-> "repo",
     sink |-> "jsonl", include_exts |-> NoExts, exclude_exts |-> NoExts,
     max_file_chars |-> 120000, chunk_size |-> 1000, chunk_overlap |-> 100]
EndToEndFiles ==
    [u \in Users |->
        IF u = "u"
        THEN Written(<<DocLine("r", RepoLink,
                               <<File("a.py", JStr([k \in 1..3000 |-> "x"]))>>)>>)
        ELSE Missing]
EndToEnd == cfg = EndToEndConfig /\ files = EndToEndFiles

InitCorpus ==
    /\ pc = "main"
    /\ \/ /\ cfg \in CorpusConfigs
          /\ \E fu \in SeqsUpTo(CorpusLines, MaxLines),
                fv \in {Missing, Written(<<CHOOSE d \in CorpusDocs : d.content[1].raw.val = TextXYZ /\ Len(d.content) = 1>>)} :
                files = [u \in Users |-> IF u = "u" THEN Written(fu) ELSE fv]
       \/ EndToEnd
    /\ mongo = {}
    /\ exit_code = -1
    /\ error = "none"
    /\ log = <<>>
    /\ user_i = 0 /\ repo_urls = <<>> /\ url_i = 0 /\ docs = <<>> /\ gh_total = 0
    /\ in_user = 0 /\ in_line = 0 /\ out = <<>> /\ corpus_file = Missing
    /\ run = 1 /\ prev_out = <<>>
    /\ IdleChunk /\ IdleClean /\ IdleEnglish /\ IdleNumeric /\ pp = DefaultPostprocess

NextCorpus ==
    \/ Main \/ RunPreprocess \/ CorpusLine \/ CorpusNextUser \/ SaveCorpus \/ Rerun

SpecCorpus == InitCorpus /\ [][NextCorpus]_vars

\* ---- the records of a run
ChunkIndexes(recs) == [k \in 1..Len(recs) |-> recs[k].metadata.chunk_index]
ChunkCounts(recs)  == [k \in 1..Len(recs) |-> recs[k].metadata.n_chunks]
Ids(recs)          == [k \in 1..Len(recs) |-> recs[k].id]
Finished           == pc = "exit" /\ exit_code = 0 /\ corpus_file = Written(out)

\* C2 as stated: the end-to-end scenario yields exactly 4 records, chunk_index 0..3,
\* n_chunks = 4 on each, and the record with chunk_index 3 has a text of length 100.
C2_EndToEndLastChunk100 ==
    (EndToEnd /\ Finished) =>
        /\ ChunkIndexes(out) = <<0, 1, 2, 3>>
        /\ ChunkCounts(out) = <<4, 4, 4, 4>>
        /\ Len(out[4].text) = 100

\* C2 amended: the end-to-end scenario yields exactly 4 records, chunk_index 0..3,
\* n_chunks = 4 on each, and the record with chunk_index 3 has a text of length 300
\* (the windows start at 0, 900, 1800 and 2700).
C2_EndToEndLastChunk300 ==
    (EndToEnd /\ Finished) =>
        /\ ChunkIndexes(out) = <<0, 1, 2, 3>>
        /\ ChunkCounts(out) = <<4, 4, 4, 4>>
        /\ Len(out[4].text) = 300
        /\ \A k \in 1..3 : Len(out[k].text) = 1000

\* C2 witness: the end-to-end scenario has been built and saved.
C2_Witness == EndToEnd /\ Finished /\ Len(out) = 4

\* Two records of the same file of the same document, one after the other.
SameFile(a, b) ==
    /\ a.metadata.owner = b.metadata.owner
    /\ a.metadata.repo = b.metadata.repo
    /\ a.metadata.path = b.metadata.path
    /\ a.metadata.n_chunks = b.metadata.n_chunks

\* C8: the records a file contributes carry chunk_index 0, 1, ..., k-1 in emission
\* order and all carry the same n_chunks = k: every record's index is below its
\* n_chunks, a record with index j > 0 directly follows the record j-1 of the same
\* file, and a record with index j < n_chunks - 1 is directly followed by record j+1.
C8_ChunkIndexAndCount ==
    \A p \in 1..Len(out) :
        LET m == out[p].metadata
        IN  /\ 0 <= m.chunk_index /\ m.chunk_index < m.n_chunks
            /\ m.chunk_index > 0 =>
                  /\ p > 1
                  /\ SameFile(out[p - 1], out[p])
                  /\ out[p - 1].metadata.chunk_index = m.chunk_index - 1
            /\ m.chunk_index < m.n_chunks - 1 =>
                  /\ p < Len(out)
                  /\ SameFile(out[p], out[p + 1])
                  /\ out[p + 1].metadata.chunk_index = m.chunk_index + 1

\* C8 witness: a saved corpus with a file of three chunks, after another file.
C8_Witness ==
    /\ Finished
    /\ \E p \in 2..Len(out) :
          /\ out[p].metadata.chunk_index = 0
          /\ out[p].metadata.n_chunks = 3

\* The five values the id is made of.
FiveValues(r) ==
    <<r.metadata.owner, r.metadata.repo, r.metadata.path, r.metadata.chunk_index,
      Len(r.text)>>

RawFiles ==
    UNION { UNION { {[owner |-> cfg.users[u],
                      repo  |-> files[cfg.users[u]].lines[k].name,
                      path  |-> files[cfg.users[u]].lines[k].content[j].path] :
                        j \in 1..Len(files[cfg.users[u]].lines[k].content)} :
                    k \in 1..Len(files[cfg.users[u]].lines) } :
            u \in 1..Len(cfg.users) }

Contributes(f) ==
    \E k \in 1..Len(out) :
        /\ out[k].metadata.owner = f.owner
        /\ out[k].metadata.repo = f.repo
        /\ out[k].metadata.path = f.path

\* C12: a file contributes no chunk when its lower-cased extension is in the exclude
\* set, whether the include set is empty or holds that extension too, and when the
\* include set is non-empty and lacks the extension, even if it is not excluded; a
\* file that contributes a chunk has neither.
C12_ExtensionGate ==
    Finished =>
        \A f \in RawFiles :
            LET ext      == ExtOf(f.path)
                include  == LowerExts(cfg.include_exts)
                exclude  == LowerExts(cfg.exclude_exts)
                excluded == ext \in exclude
                left_out == include # {} /\ ext \notin include
            IN  /\ excluded => ~Contributes(f)
                /\ left_out => ~Contributes(f)
                /\ Contributes(f) => (~excluded /\ ~left_out)

\* C12 witness: with include and exclude both holding ".py", a run over a document
\* with a.py (excluded although included) and B.MD (not included, not excluded) ends
\* with no record.
C12_Witness ==
    /\ Finished
    /\ cfg.include_exts = {".py"} /\ cfg.exclude_exts = {".py"}
    /\ \E k \in 1..Len(files["u"].lines) :
          /\ files["u"].lines[k].kind = "doc"
          /\ {files["u"].lines[k].content[j].path :
                j \in 1..Len(files["u"].lines[k].content)} = {"a.py", "B.MD"}
    /\ out = <<>>

\* ============================================ tools/clean_corpus.py, started
InitClean ==
    /\ cl_pc = "main"
    /\ pp \in PostprocessConfigs
    /\ cl_exists \in BOOLEAN
    /\ cl_n \in 0..MaxCleanLines
    /\ cl_exists = FALSE => cl_n = 0
    /\ CleanCounters(0)
    /\ cl_out = <<>>
    /\ cl_last = NoLine
    /\ IdleMain /\ IdleChunk /\ IdleEnglish /\ IdleNumeric

NextClean == CleanStart \/ CleanLine \/ CleanSummary

SpecClean == InitClean /\ [][NextClean]_vars

\* The three counters of dropped records.
DropCount == dropped_empty + dropped_non_en + dropped_numeric

\* C4: after the cleaning pass the four counters account for every line counted in
\* total: kept + dropped_non_en + dropped_numeric + dropped_empty = total.
C4_CountersSumToTotal ==
    cl_pc = "done" => kept + dropped_non_en + dropped_numeric + dropped_empty = total

\* =============================== the two readers of JSON-lines files together
InitJsonl == InitCorpus \/ InitClean

NextJsonl == NextCorpus \/ NextClean

SpecJsonl == InitJsonl /\ [][NextJsonl]_vars

\* A step in which build_corpus (through _load_jsonl) reads a malformed line, and one
\* in which clean_corpus.main does.
CorpusReadsMalformed == AtLine /\ CurrentLine.kind = "malformed"
CleanReadsMalformed ==
    cl_pc = "loop" /\ cl_pos' = cl_pos + 1 /\ cl_last'.line.kind = "malformed"

\* The records of the document lines among lines, in order.
RECURSIVE RecordsOfLines(_, _)
RecordsOfLines(owner, lines) ==
    IF lines = <<>> THEN <<>>
    ELSE (IF Head(lines).kind = "doc" THEN DocRecords(owner, Head(lines), cfg) ELSE <<>>)
            \o RecordsOfLines(owner, Tail(lines))

\* The records of every document line build_corpus has passed: the files of the users
\* before in_user, and the lines before in_line of in_user's file.
RECURSIVE RecordsBefore(_, _)
RecordsBefore(u, l) ==
    IF u = 0 THEN <<>>
    ELSE IF u > Len(cfg.users) THEN RecordsBefore(u - 1, MaxLines + 1)
    ELSE LET lines == files[cfg.users[u]].lines
         IN  RecordsBefore(u - 1, MaxLines + 1)
                \o RecordsOfLines(cfg.users[u], SubSeq(lines, 1, Min2(l - 1, Len(lines))))

\* C5 as stated: a malformed line met by either reader is counted as dropped in a
\* counter and the reader goes on to the next line.
C5_MalformedLineCountedByBothReaders ==
    [][ /\ CorpusReadsMalformed =>
              (DropCount' = DropCount + 1 /\ pc' = "build_corpus" /\ in_line' = in_line + 1)
        /\ CleanReadsMalformed =>
              (DropCount' = DropCount + 1 /\ cl_pc' = "loop") ]_vars

\* C5 amended: a malformed line never halts either reader, and every document line
\* after it is still processed; clean_corpus.main counts it in dropped_empty (and in
\* total), while _load_jsonl skips it without counting it anywhere: build_corpus only
\* moves to the next line and its records are those of the document lines passed.
C5_MalformedLineSkippedCountedByCleanerOnly ==
    /\ [][ /\ CorpusReadsMalformed =>
                 /\ pc' = "build_corpus" /\ error' = "none"
                 /\ in_line' = in_line + 1 /\ in_user' = in_user
                 /\ out' = out
                 /\ UNCHANGED cleanVars
           /\ CleanReadsMalformed =>
                 /\ cl_pc' = "loop"
                 /\ dropped_empty' = dropped_empty + 1
                 /\ total' = total + 1
                 /\ UNCHANGED <<kept, dropped_non_en, dropped_numeric, cl_out>> ]_vars
    /\ [](pc = "build_corpus" => out = RecordsBefore(in_user, in_line))
    /\ [](Finished => out = RecordsBefore(Len(cfg.users), MaxLines + 1))
    /\ []((cl_pc = "done" /\ cl_exists) => total = cl_n)

\* C5 witness: build_corpus has finished on a file whose first line is malformed and
\* whose second line is a document that gave records.
C5_Witness ==
    /\ Finished
    /\ Len(files["u"].lines) = 2
    /\ files["u"].lines[1].kind = "malformed"
    /\ files["u"].lines[2].kind = "doc"
    /\ out # <<>>

\* ================================================== _is_english on its own
InitEnglish ==
    /\ en_pc = "call"
    /\ pp \in PostprocessConfigs
    /\ en_text \in SeqsUpTo(EnglishChars, MaxEnglishText)
    /\ en_clf \in ClassifierOutcomes
    /\ en_result = FALSE
    /\ IdleMain /\ IdleChunk /\ IdleClean /\ IdleNumeric

NextEnglish == IsEnglishCall

SpecEnglish == InitEnglish /\ [][NextEnglish]_vars

\* C10: _is_english rejects an empty or whitespace-only text; accepts a trimmed text
\* shorter than lang_min_chars, or one the classifier is unavailable or raises for,
\* exactly when its share of characters below U+0080 is >= ascii_min_ratio; and
\* accepts a trimmed text of at least lang_min_chars that the classifier answers for
\* exactly when the answer has English with probability >= lang_min_prob.
C10_IsEnglishStrategy ==
    en_pc = "return" =>
        LET t         == Strip(en_text)
            below128  == Cardinality({k \in 1..Len(t) : t[k] # "é"})
            byAscii   == 100 * below128 >= pp.ascii_min_ratio * Len(t)
            byClf     == \E lp \in {en_clf.langs[k] : k \in 1..Len(en_clf.langs)} :
                            lp.lang = "en" /\ lp.prob >= pp.lang_min_prob
            answered  == en_clf.state = "answers"
        IN  /\ t = <<>> => ~en_result
            /\ (t # <<>> /\ (Len(t) < pp.lang_min_chars \/ ~answered))
                    => (en_result <=> byAscii)
            /\ (t # <<>> /\ Len(t) >= pp.lang_min_chars /\ answered)
                    => (en_result <=> byClf)

\* C10 witness: a short pure-ASCII text, below lang_min_chars = 200, is accepted with
\* no classifier available.
C10_Witness ==
    /\ en_pc = "return"
    /\ pp.lang_min_chars = 200
    /\ en_text = <<"a", " ", "a">>
    /\ en_clf = Unavailable
    /\ en_result

\* ================================================ _is_mostly_numeric on its own
InitNumeric ==
    /\ nu_pc = "call"
    /\ pp \in PostprocessConfigs
    /\ nu_text \in SeqsUpTo(NumericChars, MaxNumericText)
    /\ nu_result = FALSE
    /\ IdleMain /\ IdleChunk /\ IdleClean /\ IdleEnglish

NextNumeric == IsMostlyNumericCall

SpecNumeric == InitNumeric /\ [][NextNumeric]_vars

\* C11: _is_mostly_numeric rejects a text exactly when it has no letter and no digit
\* or its digits are at least max_digit_ratio of its letters and digits; a text whose
\* digit ratio equals max_digit_ratio is rejected, and a text that has one digit fewer
\* and one letter more than such a text is not.
C11_NumericBoundInclusive ==
    nu_pc = "return" =>
        LET L == Cardinality({k \in 1..Len(nu_text) : nu_text[k] \in {"a", "é"}})
            D == Cardinality({k \in 1..Len(nu_text) : nu_text[k] = "1"})
            r == pp.max_digit_ratio
        IN  /\ nu_result <=> (L + D = 0 \/ 100 * D >= r * (L + D))
            /\ (L + D > 0 /\ 100 * D = r * (L + D)) => nu_result
            /\ (L >= 1 /\ 100 * (D + 1) = r * (L + D)) => ~nu_result

\* C11 witness: three digits among five letters and digits, at max_digit_ratio 0.60,
\* are rejected.
C11_Witness ==
    /\ nu_pc = "return"
    /\ pp.max_digit_ratio = 60
    /\ nu_text = <<"1", "a", "1", "a", "1">>
    /\ nu_result

\* ---- _chunk step by step: the same code, one loop iteration per action.
ChunkChars == {"x", " "}

InitChunk ==
    /\ ch_pc = "call"
    /\ ch_text \in SeqsUpTo(ChunkChars, MaxChunkText)
    /\ ch_size \in -1..MaxChunkSize
    /\ ch_overlap \in -2..MaxOverlap
    /\ ch_step = 0
    /\ ch_i = 0
    /\ ch_chunks = <<>>
    /\ ch_starts = <<>>
    /\ IdleMain /\ IdleClean /\ IdleEnglish /\ IdleNumeric /\ pp = DefaultPostprocess

\* Lines 42-48: strip, the two early returns, the loop's initialisation.
ChunkEnter ==
    /\ UNCHANGED notChunk
    /\ ch_pc = "call"
    /\ ch_text' = Strip(ch_text)
    /\ IF ch_text' = <<>>
       THEN /\ ch_pc' = "return"
            /\ UNCHANGED <<ch_chunks, ch_starts, ch_step, ch_i>>
       ELSE IF ch_size <= 0
       THEN /\ ch_pc' = "return"
            /\ ch_chunks' = <<ch_text'>>
            /\ ch_starts' = <<0>>
            /\ UNCHANGED <<ch_step, ch_i>>
       ELSE /\ ch_pc' = "loop"
            /\ ch_step' = ChunkStep(ch_size, ch_overlap)
            /\ ch_i' = 0
            /\ UNCHANGED <<ch_chunks, ch_starts>>
    /\ UNCHANGED <<ch_size, ch_overlap>>

\* Lines 49-51: one iteration of the loop.
ChunkIterate ==
    /\ UNCHANGED notChunk
    /\ ch_pc = "loop"
    /\ ch_i < Len(ch_text)
    /\ ch_chunks' = Append(ch_chunks, Slice(ch_text, ch_i, ch_i + ch_size))
    /\ ch_starts' = Append(ch_starts, ch_i)
    /\ ch_i' = ch_i + ch_step
    /\ UNCHANGED <<ch_pc, ch_text, ch_size, ch_overlap, ch_step>>

\* Line 52: the loop condition fails, return chunks.
ChunkReturn ==
    /\ UNCHANGED notChunk
    /\ ch_pc = "loop"
    /\ ch_i >= Len(ch_text)
    /\ ch_pc' = "return"
    /\ UNCHANGED <<ch_text, ch_size, ch_overlap, ch_step, ch_i, ch_chunks, ch_starts>>

NextChunk == ChunkEnter \/ ChunkIterate \/ ChunkReturn

SpecChunk == InitChunk /\ [][NextChunk]_vars

\* ---- the windows _chunk returned, by their offsets in the trimmed text
WindowEnd(k) == ch_starts[k] + Len(ch_chunks[k])

\* Every window is the text between its offsets; every offset of [0, N) lies in a
\* window; consecutive starts are at most size apart; the last window ends at N.
ChunkCovers ==
    LET N == Len(ch_text)
        n == Len(ch_chunks)
    IN  /\ n >= 1
        /\ \A k \in 1..n : ch_chunks[k] = SubSeq(ch_text, ch_starts[k] + 1, WindowEnd(k))
        /\ \A o \in 0..(N - 1) : \E k \in 1..n : ch_starts[k] <= o /\ o < WindowEnd(k)
        /\ \A k \in 1..(n - 1) : ch_starts[k + 1] - ch_starts[k] <= ch_size
        /\ WindowEnd(n) = N

\* C3 as stated: for every trimmed text of length N >= 1, every size S > 0 and every
\* integer overlap O < S, negative ones included, the windows _chunk returns cover
\* [0, N) with starts at most S apart and the last window ends at N.
C3_CoverageAnyOverlapBelowSize ==
    (ch_pc = "return" /\ Len(ch_text) >= 1 /\ ch_size > 0 /\ ch_overlap < ch_size)
        => ChunkCovers

\* C3 amended: the same for 0 <= O < S only: for every text whose trimmed length is
\* N >= 1, every size S > 0 and every overlap 0 <= O < S, the windows _chunk returns
\* cover [0, N) of the trimmed text, consecutive starts are at most S apart, and the
\* last window ends at N.
C3_CoverageNonNegativeOverlap ==
    (ch_pc = "return" /\ Len(ch_text) >= 1 /\ ch_size > 0
        /\ 0 <= ch_overlap /\ ch_overlap < ch_size)
        => ChunkCovers

\* C3 witness: _chunk returned three or more overlapping windows, the last one short.
C3_Witness ==
    /\ ch_pc = "return"
    /\ 0 < ch_overlap /\ ch_overlap < ch_size
    /\ Len(ch_chunks) >= 3
    /\ Len(ch_chunks[Len(ch_chunks)]) < ch_size

\* C13: for a non-empty text, a size S > 0 and any overlap, every window _chunk returns
\* is non-empty and every window but the last has length exactly S.
C13_OnlyLastWindowShorter ==
    (ch_pc = "return" /\ ch_size > 0) =>
        \A k \in 1..Len(ch_chunks) :
            /\ Len(ch_chunks[k]) >= 1
            /\ k < Len(ch_chunks) => Len(ch_chunks[k]) = ch_size

\* ---- _chunk, run to its end: the interpreter goes on executing the call
SpecChunkFair == SpecChunk /\ WF_vars(NextChunk)

\* C14: _chunk returns for every text, size and overlap, overlap >= size and negative
\* overlap included: in the loop the step is max(size - overlap, 1) >= 1 and each
\* iteration appends one window and moves the start index on by the step, so there are
\* never more windows than characters; with size <= 0 the loop is never entered and a
\* text that is not empty once trimmed comes back whole as the single chunk.
C14_ChunkTerminates ==
    /\ <>(ch_pc = "return")
    /\ [](ch_pc = "loop" =>
            /\ ch_step >= 1
            /\ ch_step = (IF ch_size - ch_overlap > 1 THEN ch_size - ch_overlap ELSE 1))
    /\ [][(ch_pc = "loop" /\ ch_pc' = "loop") =>
            /\ ch_i' = ch_i + ch_step
            /\ Len(ch_chunks') = Len(ch_chunks) + 1]_vars
    /\ [](Len(ch_chunks) <= Len(ch_text))
    /\ [][ch_size <= 0 => ch_pc' # "loop"]_vars
    /\ []((ch_pc = "return" /\ ch_size <= 0 /\ ch_text # <<>>) => ch_chunks = <<ch_text>>)

\* C14 witness: with an overlap of at least the size the step is 1, and _chunk has
\* returned as many windows as the trimmed text has characters.
C14_Witness ==
    /\ ch_pc = "return"
    /\ ch_size > 0 /\ ch_overlap >= ch_size
    /\ Len(ch_text) >= 3
    /\ Len(ch_chunks) = Len(ch_text)

====
